---- MODULE Spec2Model ----
(***************************************************************************)
(* A model of the ab-test extension (src/index.js): the snapshot model     *)
(* (captureCurrentPromptState / applyPromptState), the state substitution  *)
(* controller (generateWithState), the structural diff                     *)
(* (getPromptDifferences) and the text diff (computeLineDiff /             *)
(* computeWordDiff).                                                       *)
(*                                                                         *)
(* JavaScript values are represented as follows.                           *)
(*   - null / undefined objects : the record Null                          *)
(*   - an undefined property    : the string Undefined                     *)
(*   - booleans stored in data  : the strings "true" / "false"             *)
(*   - text that the code splits or trims : a sequence of one-character    *)
(*     strings (<<"a", " ", "b">> is "a b")                                *)
(*   - arrays                   : sequences; objects : records             *)
(***************************************************************************)
EXTENDS Integers, Sequences, FiniteSets, TLC

VARIABLES
    mode,            \* the entry point the behaviour exercises, and whether it has run
    \* ---- live state shared by the substitution controller ----
    serviceSettings, \* promptManager.serviceSettings: [prompts, prompt_order]
    chat,            \* getContext().chat, the live transcript
    inv,             \* the generateWithState invocations, one record each
    pre,             \* per invocation: live state on entry (history)
    atCall,          \* per invocation: live state when context.generate was called (history)
    during,          \* per invocation: the invocation suspended when it began
    event,           \* what the generation collaborator did last, and to which invocation (history)
    test,            \* the runABTest call: its position, its inputs and its locals
    \* ---- getPromptDifferences ----
    stateA, stateB,  \* the two arguments
    differences,     \* the returned array
    \* ---- computeLineDiff ----
    textA, textB,    \* the two arguments
    lineDiff,        \* the returned {resultA, resultB}
    \* ---- computeWordDiff ----
    lineA, lineB,    \* the two arguments
    wordDiff,        \* the returned {diffA, diffB}
    \* ---- the snapshot model, with objects held by reference ----
    heap,            \* the objects in memory, by address
    settingsAt,      \* promptManager.serviceSettings: the addresses of its two arrays
    slot,            \* selectedSlotA / selectedSlotB: the snapshots held, by address
    taken,           \* per slot: the value its snapshot had when it was taken (history)
    gen,             \* a generateWithState invocation: its position and originalState
    lastOp           \* the snapshot operation called last and what it returned (history)

vars == <<mode, serviceSettings, chat, inv, pre, atCall, during, event, test,
          stateA, stateB, differences, textA, textB, lineDiff,
          lineA, lineB, wordDiff, heap, settingsAt, slot, taken, gen, lastOp>>

genVars  == <<serviceSettings, chat, inv, pre, atCall, during, event, test>>
diffVars == <<stateA, stateB, differences>>
lineVars == <<textA, textB, lineDiff>>
wordVars == <<lineA, lineB, wordDiff>>
snapVars == <<heap, settingsAt, slot, taken, gen, lastOp>>

-----------------------------------------------------------------------------
(* Bounds of the explored inputs.                                          *)

MaxPrompts == 2     \* longest prompts array of a diffed snapshot
MaxOrders  == 2     \* longest promptOrder array of a diffed snapshot
MaxLen     == 3     \* longest text handed to computeLineDiff
MaxChat    == 2     \* longest transcript on entry to generateWithState
MaxRepeat  == 2     \* most consecutive applyPromptState(captureCurrentPromptState())

-----------------------------------------------------------------------------
(* JavaScript values.                                                      *)

Null      == [null |-> TRUE]
Undefined == "undefined"
NoLineDiff == [resultA |-> <<>>, resultB |-> <<>>]
NoWordDiff == [diffA |-> <<>>, diffB |-> <<>>]

Max(a, b) == IF a >= b THEN a ELSE b

SeqsUpTo(S, n) == UNION {[1..k -> S] : k \in 0..n}

\* structuredClone of plain data: a deep copy, equal in value to its argument.
structuredClone(v) == v

-----------------------------------------------------------------------------
(* getPromptDifferences (src/index.js 154-204).                            *)

\* obj.f for a property that may be missing (undefined).
Prop(obj, f) == IF f \in DOMAIN obj THEN obj[f] ELSE Undefined

\* The keys of new Map(prompts.map(p => [p.identifier, p])) in iteration
\* order: a Map keeps the position of a key's first insertion.
RECURSIVE MapKeys(_)
MapKeys(prompts) ==
    IF prompts = <<>> THEN <<>>
    ELSE LET front == MapKeys(SubSeq(prompts, 1, Len(prompts) - 1))
             id    == prompts[Len(prompts)].identifier
         IN  IF \E i \in 1..Len(front) : front[i] = id
             THEN front
             ELSE Append(front, id)

\* Map.has(id)
MapHas(prompts, id) == \E i \in 1..Len(prompts) : prompts[i].identifier = id

\* Map.get(id): a later insertion under the same key replaces the value.
MapGet(prompts, id) ==
    LET last == CHOOSE i \in 1..Len(prompts) :
                    /\ prompts[i].identifier = id
                    /\ \A j \in (i + 1)..Len(prompts) : prompts[j].identifier # id
    IN  prompts[last]

\* o.order?.some(e => e.identifier === id)
OrderContains(o, id) ==
    /\ "order" \in DOMAIN o
    /\ \E i \in 1..Len(o.order) : o.order[i].identifier = id

\* Array.prototype.find over an order list: the first element with the id.
FindEntry(order, id) ==
    order[CHOOSE i \in 1..Len(order) :
              /\ order[i].identifier = id
              /\ \A j \in 1..(i - 1) : order[j].identifier # id]

\* Mutant: the last order list holding the identifier decides.
ResolveEnabled_LastList(promptOrder, id) ==
    IF \E i \in 1..Len(promptOrder) : OrderContains(promptOrder[i], id)
    THEN LET last == CHOOSE i \in 1..Len(promptOrder) :
                         /\ OrderContains(promptOrder[i], id)
                         /\ \A j \in (i + 1)..Len(promptOrder) :
                                ~OrderContains(promptOrder[j], id)
         IN  Prop(FindEntry(promptOrder[last].order, id), "enabled")
    ELSE Undefined

\* state.promptOrder.find(o => o.order?.some(e => e.identifier === id))
\*      ?.order?.find(e => e.identifier === id)?.enabled
ResolveEnabled(promptOrder, id) ==
    IF \E i \in 1..Len(promptOrder) : OrderContains(promptOrder[i], id)
    THEN LET first == CHOOSE i \in 1..Len(promptOrder) :
                          /\ OrderContains(promptOrder[i], id)
                          /\ \A j \in 1..(i - 1) : ~OrderContains(promptOrder[j], id)
         IN  Prop(FindEntry(promptOrder[first].order, id), "enabled")
    ELSE Undefined

\* Mutant: the added record takes the identifier for its name.
AddedRecord_IdAsName(id, promptB) ==
    [type |-> "added", identifier |-> id, name |-> id]

RemovedRecord(id, promptA) ==
    [type |-> "removed", identifier |-> id, name |-> promptA.name]

AddedRecord(id, promptB) ==
    [type |-> "added", identifier |-> id, name |-> promptB.name]

\* Mutant: the fragments are compared as objects, which never are the same.
ContentRecords_ByIdentity(id, promptA, promptB) ==
    << [type |-> "content_changed", identifier |-> id, name |-> promptA.name,
        contentA |-> promptA.content, contentB |-> promptB.content] >>

\* A content with its case folded and trailing blanks dropped.
Normalised(content) ==
    CASE content = "hi " -> "Hi"
      [] content = "Go " -> "Go"
      [] OTHER -> content

\* Mutant: the contents are normalised before they are compared.
ContentRecords_Normalised(id, promptA, promptB) ==
    IF Normalised(promptA.content) # Normalised(promptB.content)
    THEN << [type |-> "content_changed", identifier |-> id, name |-> promptA.name,
             contentA |-> promptA.content, contentB |-> promptB.content] >>
    ELSE <<>>

\* The content comparison of one identifier present on both sides.
ContentRecords(id, promptA, promptB) ==
    IF promptA.content # promptB.content
    THEN << [type |-> "content_changed", identifier |-> id, name |-> promptA.name,
             contentA |-> promptA.content, contentB |-> promptB.content] >>
    ELSE <<>>

\* The enabled comparison of one identifier present on both sides.
EnabledRecords(id, promptA, sA, sB) ==
    LET enabledA == ResolveEnabled(sA.promptOrder, id)
        enabledB == ResolveEnabled(sB.promptOrder, id)
    IN  IF enabledA # enabledB
        THEN << [type |-> "enabled_changed", identifier |-> id, name |-> promptA.name,
                 enabledA |-> enabledA, enabledB |-> enabledB] >>
        ELSE <<>>

\* One iteration of the first loop: the records pushed for a key of promptsA.
RecordsOfA(id, sA, sB) ==
    LET promptA == MapGet(sA.prompts, id)
    IN  IF ~MapHas(sB.prompts, id)
        THEN << RemovedRecord(id, promptA) >>
        ELSE ContentRecords(id, promptA, MapGet(sB.prompts, id))
             \o EnabledRecords(id, promptA, sA, sB)

\* Mutant: the second loop reports every key of promptsB.
RecordsOfB_Unchecked(id, sA, sB) ==
    << AddedRecord(id, MapGet(sB.prompts, id)) >>

\* One iteration of the second loop: the record pushed for a key of promptsB.
RecordsOfB(id, sA, sB) ==
    IF ~MapHas(sA.prompts, id)
    THEN << AddedRecord(id, MapGet(sB.prompts, id)) >>
    ELSE <<>>

RECURSIVE FirstLoop(_, _, _)
FirstLoop(keys, sA, sB) ==
    IF keys = <<>> THEN <<>>
    ELSE RecordsOfA(Head(keys), sA, sB) \o FirstLoop(Tail(keys), sA, sB)

RECURSIVE SecondLoop(_, _, _)
SecondLoop(keys, sA, sB) ==
    IF keys = <<>> THEN <<>>
    ELSE RecordsOfB(Head(keys), sA, sB) \o SecondLoop(Tail(keys), sA, sB)

\* if (!stateA || !stateB) return differences;
EitherAbsent(sA, sB) == sA = Null \/ sB = Null

\* Mutant: an absent argument is compared as a snapshot without fragments.
getPromptDifferences_AbsentAsEmpty(sA, sB) ==
    LET a == IF sA = Null THEN [prompts |-> <<>>, promptOrder |-> <<>>] ELSE sA
        b == IF sB = Null THEN [prompts |-> <<>>, promptOrder |-> <<>>] ELSE sB
    IN  FirstLoop(MapKeys(a.prompts), a, b) \o SecondLoop(MapKeys(b.prompts), a, b)

\* Mutant: the additions are collected before the per-identifier comparisons.
getPromptDifferences_AddedFirst(sA, sB) ==
    IF EitherAbsent(sA, sB) THEN <<>>
    ELSE SecondLoop(MapKeys(sB.prompts), sA, sB)
         \o FirstLoop(MapKeys(sA.prompts), sA, sB)

getPromptDifferences(sA, sB) ==
    IF EitherAbsent(sA, sB) THEN <<>>
    ELSE FirstLoop(MapKeys(sA.prompts), sA, sB)
         \o SecondLoop(MapKeys(sB.prompts), sA, sB)

-----------------------------------------------------------------------------
(* computeLineDiff and computeWordDiff (src/index.js 736-793).             *)
(* A text is a sequence of one-character strings.                          *)

\* The characters the regular expression class \s matches, among those used.
IsSpace(c) == c \in {" ", "\t", "\n"}

\* String.prototype.split('\n'): every newline separates two lines; a text
\* without one is a single line (the empty text too).
RECURSIVE SplitLines(_)
SplitLines(text) ==
    IF \E i \in 1..Len(text) : text[i] = "\n"
    THEN LET i == CHOOSE k \in 1..Len(text) :
                      /\ text[k] = "\n"
                      /\ \A j \in 1..(k - 1) : text[j] # "\n"
         IN  << SubSeq(text, 1, i - 1) >> \o SplitLines(SubSeq(text, i + 1, Len(text)))
    ELSE << text >>

\* Mutant: split(/\s+/), which drops the whitespace runs it splits at.
RECURSIVE SplitWords_NoCapture(_)
SplitWords_NoCapture(line) ==
    IF \E i \in 1..Len(line) : IsSpace(line[i])
    THEN LET i == CHOOSE k \in 1..Len(line) :
                      /\ IsSpace(line[k])
                      /\ \A j \in 1..(k - 1) : ~IsSpace(line[j])
             e == CHOOSE k \in i..Len(line) :
                      /\ \A j \in i..k : IsSpace(line[j])
                      /\ (k = Len(line) \/ ~IsSpace(line[k + 1]))
         IN  << SubSeq(line, 1, i - 1) >>
             \o SplitWords_NoCapture(SubSeq(line, e + 1, Len(line)))
    ELSE << line >>

\* String.prototype.split(/(\s+)/): the maximal whitespace runs separate the
\* words and, being captured, are kept as elements of their own.
RECURSIVE SplitWords(_)
SplitWords(line) ==
    IF \E i \in 1..Len(line) : IsSpace(line[i])
    THEN LET i == CHOOSE k \in 1..Len(line) :
                      /\ IsSpace(line[k])
                      /\ \A j \in 1..(k - 1) : ~IsSpace(line[j])
             e == CHOOSE k \in i..Len(line) :
                      /\ \A j \in i..k : IsSpace(line[j])
                      /\ (k = Len(line) \/ ~IsSpace(line[k + 1]))
         IN  << SubSeq(line, 1, i - 1), SubSeq(line, i, e) >>
             \o SplitWords(SubSeq(line, e + 1, Len(line)))
    ELSE << line >>

\* Mutant: two unequal words at one index are typed "changed".
WordStep_Changed(acc, wordsA, wordsB, i) ==
    IF i > Len(wordsA)
    THEN [acc EXCEPT !.diffB = Append(@, [text |-> wordsB[i], type |-> "added"])]
    ELSE IF i > Len(wordsB)
    THEN [acc EXCEPT !.diffA = Append(@, [text |-> wordsA[i], type |-> "removed"])]
    ELSE IF wordsA[i] = wordsB[i]
    THEN [diffA |-> Append(acc.diffA, [text |-> wordsA[i], type |-> "same"]),
          diffB |-> Append(acc.diffB, [text |-> wordsB[i], type |-> "same"])]
    ELSE [diffA |-> Append(acc.diffA, [text |-> wordsA[i], type |-> "changed"]),
          diffB |-> Append(acc.diffB, [text |-> wordsB[i], type |-> "changed"])]

\* One iteration of computeWordDiff's loop, at the 1-based index i.
WordStep(acc, wordsA, wordsB, i) ==
    IF i > Len(wordsA)
    THEN [acc EXCEPT !.diffB = Append(@, [text |-> wordsB[i], type |-> "added"])]
    ELSE IF i > Len(wordsB)
    THEN [acc EXCEPT !.diffA = Append(@, [text |-> wordsA[i], type |-> "removed"])]
    ELSE IF wordsA[i] = wordsB[i]
    THEN [diffA |-> Append(acc.diffA, [text |-> wordsA[i], type |-> "same"]),
          diffB |-> Append(acc.diffB, [text |-> wordsB[i], type |-> "same"])]
    ELSE [diffA |-> Append(acc.diffA, [text |-> wordsA[i], type |-> "removed"]),
          diffB |-> Append(acc.diffB, [text |-> wordsB[i], type |-> "added"])]

RECURSIVE WordLoop(_, _, _, _, _)
WordLoop(acc, wordsA, wordsB, i, maxLen) ==
    IF i > maxLen THEN acc
    ELSE WordLoop(WordStep(acc, wordsA, wordsB, i), wordsA, wordsB, i + 1, maxLen)

computeWordDiff(lA, lB) ==
    LET wordsA == SplitWords(lA)
        wordsB == SplitWords(lB)
        maxLen == Max(Len(wordsA), Len(wordsB))
    IN  WordLoop([diffA |-> <<>>, diffB |-> <<>>], wordsA, wordsB, 1, maxLen)

\* The two records pushed when both lines are present and unequal.
ChangedLines(lA, lB) ==
    [a |-> [text |-> lA, type |-> "changed",
            wordDiff |-> computeWordDiff(lA, lB).diffA],
     b |-> [text |-> lB, type |-> "changed",
            wordDiff |-> computeWordDiff(lA, lB).diffB]]

\* One iteration of computeLineDiff's loop, at the 1-based index i.
LineStep(acc, linesA, linesB, i) ==
    IF i > Len(linesA)
    THEN [resultA |-> Append(acc.resultA, [text |-> <<>>, type |-> "empty"]),
          resultB |-> Append(acc.resultB, [text |-> linesB[i], type |-> "added"])]
    ELSE IF i > Len(linesB)
    THEN [resultA |-> Append(acc.resultA, [text |-> linesA[i], type |-> "removed"]),
          resultB |-> Append(acc.resultB, [text |-> <<>>, type |-> "empty"])]
    ELSE IF linesA[i] = linesB[i]
    THEN [resultA |-> Append(acc.resultA, [text |-> linesA[i], type |-> "same"]),
          resultB |-> Append(acc.resultB, [text |-> linesB[i], type |-> "same"])]
    ELSE [resultA |-> Append(acc.resultA, ChangedLines(linesA[i], linesB[i]).a),
          resultB |-> Append(acc.resultB, ChangedLines(linesA[i], linesB[i]).b)]

RECURSIVE LineLoop(_, _, _, _, _)
LineLoop(acc, linesA, linesB, i, maxLen) ==
    IF i > maxLen THEN acc
    ELSE LineLoop(LineStep(acc, linesA, linesB, i), linesA, linesB, i + 1, maxLen)

\* Mutant: the loop runs over the shorter of the two texts.
LineCount_Shorter(linesA, linesB) ==
    IF Len(linesA) <= Len(linesB) THEN Len(linesA) ELSE Len(linesB)

\* const maxLen = Math.max(linesA.length, linesB.length);
LineCount(linesA, linesB) == Max(Len(linesA), Len(linesB))

computeLineDiff(tA, tB) ==
    LET linesA == SplitLines(tA)
        linesB == SplitLines(tB)
    IN  LineLoop([resultA |-> <<>>, resultB |-> <<>>], linesA, linesB, 1,
                 LineCount(linesA, linesB))

-----------------------------------------------------------------------------
(* The snapshot model (src/index.js 66-99).                                *)
(* serviceSettings = Null stands for !promptManager ||                     *)
(* !promptManager.serviceSettings.                                         *)

\* Mutant: without the collaborator an empty snapshot is returned.
captureCurrentPromptState_EmptyWhenAbsent(settings) ==
    IF settings = Null THEN [prompts |-> <<>>, promptOrder |-> <<>>]
    ELSE [prompts     |-> structuredClone(settings.prompts),
          promptOrder |-> structuredClone(settings.prompt_order)]

\* captureCurrentPromptState(): null without the collaborator, otherwise a
\* deep copy of the live prompts and prompt_order.  presetName, enabledCount,
\* timestamp and name are provenance and are not modelled.
captureCurrentPromptState(settings) ==
    IF settings = Null THEN Null
    ELSE [prompts     |-> structuredClone(settings.prompts),
          promptOrder |-> structuredClone(settings.prompt_order)]

\* applyPromptState(state): the returned boolean and the live settings it
\* leaves.  promptManager.render(false) redraws the host's UI only.
applyPromptState(settings, state) ==
    IF settings = Null \/ state = Null
    THEN [ok |-> FALSE, settings |-> settings]
    ELSE [ok |-> TRUE,
          settings |-> [prompts      |-> structuredClone(state.prompts),
                        prompt_order |-> structuredClone(state.promptOrder)]]

-----------------------------------------------------------------------------
(* The snapshot model with objects held by reference (src/index.js 66-99). *)
(* An array or object lives at an address of the heap and holds the        *)
(* addresses of its elements, so that two holders of one address see each  *)
(* other's writes.  A cell is [kind, data, kids]: an "array" has its       *)
(* elements as kids; a "list" (an element of prompt_order) has its         *)
(* character_id as data and its order array as only kid; a "prompt" and an *)
(* "entry" have their properties as data.                                  *)

\* The heap with a new object in it, and the address of that object.
Allocate(h, cell) == [heap |-> Append(h, cell), ref |-> Len(h) + 1]

\* Mutant: a copy of an array that has lost its elements.
structuredCloneIn_Empty(h, r) == Allocate(h, [h[r] EXCEPT !.kids = <<>>])

\* structuredClone(x) of the object at address r: every object reachable
\* from it is created anew, and the copy holds the new addresses.
RECURSIVE structuredCloneIn(_, _)
RECURSIVE CloneKids(_, _)
CloneKids(h, kids) ==
    IF kids = <<>> THEN [heap |-> h, refs |-> <<>>]
    ELSE LET first == structuredCloneIn(h, Head(kids))
             rest  == CloneKids(first.heap, Tail(kids))
         IN  [heap |-> rest.heap, refs |-> << first.ref >> \o rest.refs]

structuredCloneIn(h, r) ==
    LET copied == CloneKids(h, h[r].kids)
    IN  Allocate(copied.heap, [h[r] EXCEPT !.kids = copied.refs])

\* The value of the object at an address: arrays as sequences, objects as
\* records.
RECURSIVE ValueAt(_, _)
ValueAt(h, r) ==
    CASE h[r].kind = "array" -> [i \in 1..Len(h[r].kids) |-> ValueAt(h, h[r].kids[i])]
      [] h[r].kind = "list"  -> [character_id |-> h[r].data.character_id,
                                order |-> ValueAt(h, h[r].kids[1])]
      [] OTHER -> h[r].data

\* The value of the live settings and of a snapshot held by reference.
SettingsValue(h, settings) ==
    IF settings = Null THEN Null
    ELSE [prompts      |-> ValueAt(h, settings.prompts),
          prompt_order |-> ValueAt(h, settings.prompt_order)]

SnapshotValue(h, state) ==
    IF state = Null THEN Null
    ELSE [prompts     |-> ValueAt(h, state.prompts),
          promptOrder |-> ValueAt(h, state.promptOrder)]

\* The objects in use, in the order a walk from the given addresses meets
\* them.
RECURSIVE Visit(_, _, _)
RECURSIVE VisitAll(_, _, _)
VisitAll(h, seen, refs) ==
    IF refs = <<>> THEN seen
    ELSE VisitAll(h, Visit(h, seen, Head(refs)), Tail(refs))

Visit(h, seen, r) ==
    IF \E i \in 1..Len(seen) : seen[i] = r THEN seen
    ELSE VisitAll(h, Append(seen, r), h[r].kids)

\* The place of an address in that order.
PlaceOf(order, a) == CHOOSE i \in 1..Len(order) : order[i] = a

\* A settings object or snapshot with its addresses replaced by their places.
Moved(order, x) ==
    IF x = Null THEN Null ELSE [f \in DOMAIN x |-> PlaceOf(order, x[f])]

\* Objects nothing refers to any more are gone, and since an address is
\* never observed, the objects in use are numbered in the order of the walk.
Collect(h, order) ==
    [i \in 1..Len(order) |->
        [h[order[i]] EXCEPT !.kids = [j \in 1..Len(@) |-> PlaceOf(order, @[j])]]]

\* captureCurrentPromptState() (lines 66-87): the heap after it and the
\* snapshot returned.
captureCurrentPromptStateIn(h, settings) ==
    IF settings = Null THEN [heap |-> h, state |-> Null]
    ELSE LET prompts     == structuredCloneIn(h, settings.prompts)
             promptOrder == structuredCloneIn(prompts.heap, settings.prompt_order)
         IN  [heap  |-> promptOrder.heap,
              state |-> [prompts |-> prompts.ref, promptOrder |-> promptOrder.ref]]

\* Mutant: the live settings are handed the snapshot's arrays themselves.
applyPromptStateIn_Shared(h, settings, state) ==
    IF settings = Null \/ state = Null
    THEN [heap |-> h, settings |-> settings, ok |-> FALSE]
    ELSE [heap |-> h,
          settings |-> [prompts |-> state.prompts, prompt_order |-> state.promptOrder],
          ok |-> TRUE]

\* applyPromptState(state) (lines 89-99): the heap and the live settings
\* after it, and the boolean returned.
applyPromptStateIn(h, settings, state) ==
    IF settings = Null \/ state = Null
    THEN [heap |-> h, settings |-> settings, ok |-> FALSE]
    ELSE LET prompts      == structuredCloneIn(h, state.prompts)
             prompt_order == structuredCloneIn(prompts.heap, state.promptOrder)
         IN  [heap     |-> prompt_order.heap,
              settings |-> [prompts |-> prompts.ref, prompt_order |-> prompt_order.ref],
              ok       |-> TRUE]

\* The two slots a snapshot is selected into (selectedSlotA, selectedSlotB).
Slots == {"A", "B"}

\* A generateWithState invocation as far as the snapshot model is concerned.
IdleGen == [pc |-> "idle", originalState |-> Null, taken |-> Null]

NoOp == [op |-> "none", ok |-> "none", times |-> 0]

\* Building the objects of a configuration that exists before the extension
\* runs: leaves, then the arrays that hold them.
RECURSIVE StoreLeaves(_, _, _)
StoreLeaves(h, kind, values) ==
    IF values = <<>> THEN [heap |-> h, refs |-> <<>>]
    ELSE LET first == Allocate(h, [kind |-> kind, data |-> Head(values), kids |-> <<>>])
             rest  == StoreLeaves(first.heap, kind, Tail(values))
         IN  [heap |-> rest.heap, refs |-> << first.ref >> \o rest.refs]

StoreArray(h, refs) == Allocate(h, [kind |-> "array", data |-> Null, kids |-> refs])

StoreList(h, list) ==
    LET entries == StoreLeaves(h, "entry", list.order)
        order   == StoreArray(entries.heap, entries.refs)
    IN  Allocate(order.heap, [kind |-> "list",
                              data |-> [character_id |-> list.character_id],
                              kids |-> << order.ref >>])

RECURSIVE StoreLists(_, _)
StoreLists(h, lists) ==
    IF lists = <<>> THEN [heap |-> h, refs |-> <<>>]
    ELSE LET first == StoreList(h, Head(lists))
             rest  == StoreLists(first.heap, Tail(lists))
         IN  [heap |-> rest.heap, refs |-> << first.ref >> \o rest.refs]

\* The heap with a prompts array and an order array in it, and their addresses.
StoreArrays(h, prompts, promptOrder) ==
    LET ps == StoreLeaves(h, "prompt", prompts)
        pa == StoreArray(ps.heap, ps.refs)
        ls == StoreLists(pa.heap, promptOrder)
        la == StoreArray(ls.heap, ls.refs)
    IN  [heap |-> la.heap, prompts |-> pa.ref, order |-> la.ref]

-----------------------------------------------------------------------------
(* generateWithState (src/index.js 101-152).                               *)
(* An async function runs without interruption up to its await and again   *)
(* from the settlement of the awaited promise to its end, so an invocation *)
(* takes two steps: Start (lines 102-123) and Resolve or Reject (lines     *)
(* 134-151).  Callback is the generation collaborator calling the partial- *)
(* text callback while the invocation is suspended.  A behaviour holds up  *)
(* to two invocations, which may follow one another or overlap.            *)

Invocations == {1, 2}

Str(s) == [str |-> s]

\* String.prototype.trim on a text (a sequence of characters).
RECURSIVE TrimStart(_)
TrimStart(t) == IF t # <<>> /\ IsSpace(Head(t)) THEN TrimStart(Tail(t)) ELSE t

RECURSIVE TrimEnd(_)
TrimEnd(t) ==
    IF t # <<>> /\ IsSpace(t[Len(t)]) THEN TrimEnd(SubSeq(t, 1, Len(t) - 1)) ELSE t

Trim(t) == TrimEnd(TrimStart(t))

\* if (testMessage && testMessage.trim())
HasTestMessage(testMessage) ==
    /\ testMessage # Null
    /\ testMessage.str # <<>>
    /\ Trim(testMessage.str) # <<>>

\* The entry context.chat.push appends (send_date, a clock reading, is left out).
TestEntry(testMessage) ==
    [name |-> "name1", is_user |-> TRUE, mes |-> Trim(testMessage.str)]

\* Mutant: any test message that is given is pushed, blank or not.
PushTestMessage_Unchecked(transcript, testMessage) ==
    IF testMessage # Null
    THEN Append(transcript, TestEntry(testMessage))
    ELSE transcript

\* Lines 109-116: the transcript after the optional push.
PushTestMessage(transcript, testMessage) ==
    IF HasTestMessage(testMessage)
    THEN Append(transcript, TestEntry(testMessage))
    ELSE transcript

\* Mutant: a partial text heard through the callback is kept.
FinalText_PartialFirst(result, fullText) ==
    IF fullText # "" THEN fullText
    ELSE IF result # Null THEN result.str ELSE fullText

\* fullText = result || fullText
FinalText(result, fullText) ==
    IF result # Null /\ result.str # "" THEN result.str ELSE fullText

\* The catch block (lines 141-143): `Error: ${error.message}`.  Reading
\* .message of null or undefined is itself a TypeError, which leaves the
\* catch block as an exception.
CatchBlock(error) ==
    IF error = Null
    THEN [raised |-> TRUE, value |-> "TypeError"]
    ELSE [raised |-> FALSE, value |-> "Error: " \o Prop(error, "message")]

\* Mutant: the transcript is left as the invocation made it.
RestoreChat_Kept(transcript, originalChat) == transcript

\* Mutant: the configuration is left as the invocation made it.
RestoreSettings_Skipped(settings, originalState) == settings

\* The finally block (lines 144-151): the transcript and settings it leaves.
RestoreChat(transcript, originalChat) == originalChat

RestoreSettings(settings, originalState) ==
    IF originalState # Null
    THEN applyPromptState(settings, originalState).settings
    ELSE settings

IdleInv ==
    [pc |-> "idle", state |-> Null, testMessage |-> Null, originalState |-> Null,
     originalChat |-> <<>>, fullText |-> "", ret |-> Null]

\* The invocation once its promise has settled: its locals are gone, and the
\* caller holds the returned value or the exception.
Settled(outcome) ==
    [IdleInv EXCEPT !.pc = IF outcome.raised THEN "raised" ELSE "returned",
                    !.ret = Str(outcome.value)]

NoPre == [settings |-> Null, chat |-> <<>>]

NoEvent == [inv |-> 0, kind |-> "none", value |-> Null]

\* runABTest before it is called, with nothing selected.
NoTest ==
    [pc |-> "idle", selectedSlotA |-> Null, selectedSlotB |-> Null, input |-> Null,
     elements |-> TRUE, stateB |-> Null, testMessage |-> Null, before |-> NoPre]

-----------------------------------------------------------------------------
(* Inputs of the substitution controller.                                  *)

Prompt(id, name, content) == [identifier |-> id, name |-> name, content |-> content]

Entry(id, enabled) == [identifier |-> id, enabled |-> enabled]

OrderList(order) == [character_id |-> 100001, order |-> order]

\* Values the live promptManager.serviceSettings takes.
LiveConfigs ==
    { [prompts      |-> << Prompt("p1", "Main", "Hello") >>,
       prompt_order |-> << OrderList(<< Entry("p1", "true") >>) >>],
      [prompts      |-> << Prompt("p1", "Main", "Hi"), Prompt("p2", "Jailbreak", "Go") >>,
       prompt_order |-> << OrderList(<< Entry("p1", "false"), Entry("p2", "true") >>) >>] }

\* Snapshots handed to generateWithState: captures of those configurations.
GenSnapshots == {captureCurrentPromptState(c) : c \in LiveConfigs}

\* The k-th entry of the conversation held before any test: the speakers
\* alternate and the texts differ.
HistoryMessage(k) ==
    [name    |-> IF k % 2 = 1 THEN "name1" ELSE "name2",
     is_user |-> (k % 2 = 1),
     mes     |-> [j \in 1..k |-> "x"]]

\* The transcripts an invocation may find: that conversation, up to MaxChat long.
InitialChats == {[k \in 1..n |-> HistoryMessage(k)] : n \in 0..MaxChat}

TestMessages == {Null, Str(<<>>), Str(<<" ">>), Str(<<" ", "o", "k", "\n">>)}

OutputElements == {[element |-> "abtest-result"], Null}

CallbackTexts == {"t1", "t2"}

ResolveValues == {Str("r1"), Str(""), Null}

\* What context.generate may reject with: an Error, a thrown string, null.
RejectValues == {[message |-> "boom"], Str("busy"), Null}

-----------------------------------------------------------------------------
(* Actions of the substitution controller.                                 *)

Suspended == {i \in Invocations : inv[i].pc = "awaiting"}

\* Lines 102-123, and lines 141-151 when line 118 faults on a missing
\* output element before the generation call is made.
Start(i, state, testMessage, outputElement) ==
    LET originalState == captureCurrentPromptState(serviceSettings)
        originalChat  == structuredClone(chat)
        applied       == applyPromptState(serviceSettings, state).settings
        pushed        == PushTestMessage(chat, testMessage)
        entered       == [inv[i] EXCEPT !.state = state,
                                        !.testMessage = testMessage,
                                        !.originalState = originalState,
                                        !.originalChat = originalChat,
                                        !.fullText = ""]
    IN  /\ inv[i].pc = "idle"
        /\ Len(chat) <= MaxChat
        /\ pre' = [pre EXCEPT ![i] = [settings |-> serviceSettings, chat |-> chat]]
        /\ during' = [during EXCEPT ![i] = Suspended]
        /\ IF outputElement = Null
           THEN /\ inv' = [inv EXCEPT ![i] =
                              [entered EXCEPT !.pc = "returned",
                                              !.ret = Str(CatchBlock([message |-> "no element"]).value)]]
                /\ chat' = RestoreChat(pushed, originalChat)
                /\ serviceSettings' = RestoreSettings(applied, originalState)
                /\ atCall' = atCall
           ELSE /\ inv' = [inv EXCEPT ![i] = [entered EXCEPT !.pc = "awaiting"]]
                /\ chat' = pushed
                /\ serviceSettings' = applied
                /\ atCall' = [atCall EXCEPT ![i] = [settings |-> applied, chat |-> pushed]]
        /\ UNCHANGED <<mode, event, diffVars, lineVars, wordVars, snapVars>>

\* Lines 126-131: callback: (text) => { fullText = text; ... }
Callback(i, text) ==
    /\ inv[i].pc = "awaiting"
    /\ inv' = [inv EXCEPT ![i].fullText = text]
    /\ event' = [inv |-> i, kind |-> "callback", value |-> Str(text)]
    /\ UNCHANGED <<mode, serviceSettings, chat, pre, atCall, during, diffVars, lineVars, wordVars, snapVars>>

\* Lines 134-140 and 144-151: the awaited promise resolves.
Resolve(i, result) ==
    /\ inv[i].pc = "awaiting"
    /\ inv' = [inv EXCEPT ![i] =
                   Settled([raised |-> FALSE, value |-> FinalText(result, inv[i].fullText)])]
    /\ event' = [inv |-> i, kind |-> "resolved", value |-> result]
    /\ chat' = RestoreChat(chat, inv[i].originalChat)
    /\ serviceSettings' = RestoreSettings(serviceSettings, inv[i].originalState)
    /\ UNCHANGED <<mode, pre, atCall, during, diffVars, lineVars, wordVars, snapVars>>

\* Lines 141-151: the awaited promise rejects.
Reject(i, error) ==
    /\ inv[i].pc = "awaiting"
    /\ inv' = [inv EXCEPT ![i] = Settled(CatchBlock(error))]
    /\ event' = [inv |-> i, kind |-> "rejected", value |-> Null]
    /\ chat' = RestoreChat(chat, inv[i].originalChat)
    /\ serviceSettings' = RestoreSettings(serviceSettings, inv[i].originalState)
    /\ UNCHANGED <<mode, pre, atCall, during, diffVars, lineVars, wordVars, snapVars>>

GenInit ==
    /\ mode = "generate"
    /\ serviceSettings \in LiveConfigs \cup {Null}
    /\ chat \in InitialChats
    /\ inv = [i \in Invocations |-> IdleInv]
    /\ pre = [i \in Invocations |-> NoPre]
    /\ atCall = [i \in Invocations |-> NoPre]
    /\ during = [i \in Invocations |-> {}]
    /\ event = NoEvent
    /\ test = NoTest

GenNext ==
    \/ \E i \in Invocations, state \in GenSnapshots \cup {Null},
          testMessage \in TestMessages, outputElement \in OutputElements :
          Start(i, state, testMessage, outputElement) /\ UNCHANGED test
    \/ \E i \in Invocations, text \in CallbackTexts : Callback(i, text) /\ UNCHANGED test
    \/ \E i \in Invocations, result \in ResolveValues : Resolve(i, result) /\ UNCHANGED test
    \/ \E i \in Invocations, error \in RejectValues : Reject(i, error) /\ UNCHANGED test

DiffIdle == stateA = Null /\ stateB = Null /\ differences = <<>>

LineIdle == textA = <<>> /\ textB = <<>> /\ lineDiff = NoLineDiff

WordIdle == lineA = <<>> /\ lineB = <<>> /\ wordDiff = NoWordDiff

SnapIdle ==
    /\ heap = <<>>
    /\ settingsAt = Null
    /\ slot = [k \in Slots |-> Null]
    /\ taken = [k \in Slots |-> Null]
    /\ gen = IdleGen
    /\ lastOp = NoOp

GenIdle ==
    /\ serviceSettings = Null
    /\ chat = <<>>
    /\ inv = [i \in Invocations |-> IdleInv]
    /\ pre = [i \in Invocations |-> NoPre]
    /\ atCall = [i \in Invocations |-> NoPre]
    /\ during = [i \in Invocations |-> {}]
    /\ event = NoEvent
    /\ test = NoTest

Init == GenInit /\ DiffIdle /\ LineIdle /\ WordIdle /\ SnapIdle

Next == GenNext

Spec == Init /\ [][Next]_vars

-----------------------------------------------------------------------------
(* getPromptDifferences applied to bounded inputs.                         *)

\* Prompt fragments of the compared snapshots: two identifiers, contents that
\* differ in case and trailing blank only, names that differ.
DiffPrompts ==
    { Prompt("p1", "Main", "Hi"), Prompt("p1", "Alt", "hi "),
      Prompt("p2", "Jailbreak", "Go"), Prompt("p2", "Jailbreak", "Go ") }

\* Fragments under three identifiers, as slot A and as slot B holds them.
ThreePromptsA ==
    { Prompt("p1", "Main", "Hi"), Prompt("p2", "Jailbreak", "Go"),
      Prompt("p3", "Nsfw", "No") }

ThreePromptsB ==
    { Prompt("p1", "Alt", "hi "), Prompt("p2", "Jailbreak", "Go "),
      Prompt("p3", "Nsfw", "No") }

DiffIds == {p.identifier : p \in DiffPrompts \cup ThreePromptsA}

\* Order lists: one without an order array, ones that hold p1 enabled,
\* disabled and without the enabled property, and one that holds p2 only.
OrderEntries ==
    { [character_id |-> 100000],
      OrderList(<< Entry("p2", "true"), Entry("p1", "true") >>),
      OrderList(<< Entry("p1", "false") >>),
      OrderList(<< Entry("p2", "false") >>),
      OrderList(<< [identifier |-> "p1"] >>) }

\* promptOrder arrays tried with every prompts array.
FewOrders ==
    { <<>>,
      << OrderList(<< Entry("p1", "true"), Entry("p2", "true") >>) >>,
      << OrderList(<< Entry("p1", "false"), Entry("p2", "false") >>) >> }

\* prompts arrays tried with every promptOrder array.
FewPrompts == { << Prompt("p1", "Main", "Hi") >>, << Prompt("p1", "Alt", "hi ") >> }

Snapshot(prompts, promptOrder) == [prompts |-> prompts, promptOrder |-> promptOrder]

\* Any prompts array with a few promptOrder arrays.
AnyPromptsSnapshots ==
    {Snapshot(ps, os) : ps \in SeqsUpTo(DiffPrompts, MaxPrompts), os \in FewOrders}

\* A few prompts arrays with any promptOrder array.
AnyOrdersSnapshots ==
    {Snapshot(ps, os) : ps \in FewPrompts, os \in SeqsUpTo(OrderEntries, MaxOrders)}

\* One prompts array with any promptOrder array.
AnyOrdersOnePrompt ==
    {Snapshot(<< Prompt("p1", "Main", "Hi") >>, os) : os \in SeqsUpTo(OrderEntries, MaxOrders)}

FewSnapshots == {Snapshot(ps, os) : ps \in FewPrompts, os \in FewOrders}

\* The arrangements of some of the given fragments, each at most once.
Arrangements(S) ==
    {ps \in SeqsUpTo(S, Cardinality(S)) :
        \A i, j \in 1..Len(ps) : ps[i] = ps[j] => i = j}

\* Snapshots over three identifiers in any arrangement, with a few
\* promptOrder arrays.
ArrangedSnapshots(S) ==
    {Snapshot(ps, os) : ps \in Arrangements(S), os \in FewOrders}

\* The arguments: snapshots of the same family on both sides, or one side or
\* both absent.
DiffInit ==
    /\ mode = "diff"
    /\ \/ stateA \in AnyPromptsSnapshots /\ stateB \in AnyPromptsSnapshots
       \/ stateA \in AnyOrdersOnePrompt /\ stateB \in AnyOrdersSnapshots
       \/ stateA \in ArrangedSnapshots(ThreePromptsA)
          /\ stateB \in ArrangedSnapshots(ThreePromptsB)
       \/ stateA = Null /\ stateB \in {Null} \cup FewSnapshots
       \/ stateA \in FewSnapshots /\ stateB = Null
    /\ differences = <<>>

\* currentDifferences = getPromptDifferences(selectedSlotA, selectedSlotB)
RunDiff ==
    /\ mode = "diff"
    /\ differences' = getPromptDifferences(stateA, stateB)
    /\ mode' = "diff_done"
    /\ UNCHANGED <<stateA, stateB, genVars, lineVars, wordVars, snapVars>>

InitDiff == DiffInit /\ GenIdle /\ LineIdle /\ WordIdle /\ SnapIdle

NextDiff == RunDiff

SpecDiff == InitDiff /\ [][NextDiff]_vars

-----------------------------------------------------------------------------
(* computeLineDiff applied to bounded inputs.                              *)

Chars == {"a", "b", " ", "\n"}

Texts == SeqsUpTo(Chars, MaxLen)

LineInit ==
    /\ mode = "line"
    /\ textA \in Texts
    /\ textB \in Texts
    /\ lineDiff = NoLineDiff

\* const { resultA, resultB } = computeLineDiff(contentA, contentB)
RunLineDiff ==
    /\ mode = "line"
    /\ lineDiff' = computeLineDiff(textA, textB)
    /\ mode' = "line_done"
    /\ UNCHANGED <<textA, textB, genVars, diffVars, wordVars, snapVars>>

InitLine == LineInit /\ GenIdle /\ DiffIdle /\ WordIdle /\ SnapIdle

NextLine == RunLineDiff

SpecLine == InitLine /\ [][NextLine]_vars

-----------------------------------------------------------------------------
(* computeWordDiff applied to bounded inputs.                              *)

\* Characters of a line: two letters and two kinds of whitespace.
WordChars == {"a", "b", " ", "\t"}

Lines == SeqsUpTo(WordChars, MaxLen)

WordInit ==
    /\ mode = "word"
    /\ lineA \in Lines
    /\ lineB \in Lines
    /\ wordDiff = NoWordDiff

\* const { diffA, diffB } = computeWordDiff(lineA, lineB)
RunWordDiff ==
    /\ mode = "word"
    /\ wordDiff' = computeWordDiff(lineA, lineB)
    /\ mode' = "word_done"
    /\ UNCHANGED <<lineA, lineB, genVars, diffVars, lineVars, snapVars>>

InitWord == WordInit /\ GenIdle /\ DiffIdle /\ LineIdle /\ SnapIdle

NextWord == RunWordDiff

SpecWord == InitWord /\ [][NextWord]_vars

-----------------------------------------------------------------------------
(* The snapshot model in use: snapshots are captured into the slots and    *)
(* applied, generateWithState substitutes and restores, the slots are      *)
(* compared, and between these calls the host edits its live settings in   *)
(* place.                                                                  *)

\* The addresses held by the live settings, the slots and an invocation.
SettingsRefs(x) == IF x = Null THEN <<>> ELSE << x.prompts, x.prompt_order >>

StateRefs(x) == IF x = Null THEN <<>> ELSE << x.prompts, x.promptOrder >>

SnapRoots(settings, slots, invocation) ==
    SettingsRefs(settings) \o StateRefs(slots["A"]) \o StateRefs(slots["B"])
                           \o StateRefs(invocation.originalState)

\* What an operation leaves behind: the objects still referred to.
Kept(h, settings, slots, invocation) ==
    LET order == VisitAll(h, <<>>, SnapRoots(settings, slots, invocation))
    IN  [heap     |-> Collect(h, order),
         settings |-> Moved(order, settings),
         slot     |-> [k \in Slots |-> Moved(order, slots[k])],
         gen      |-> [invocation EXCEPT !.originalState = Moved(order, @)]]

Becomes(kept) ==
    /\ heap' = kept.heap
    /\ settingsAt' = kept.settings
    /\ slot' = kept.slot
    /\ gen' = kept.gen

\* What the host edits between the calls: the content of one prompt and the
\* switch of another.
EditedPrompts == {"p2"}

EditContents == {"Go", "Bye"}

ToggledEntries == {"p1"}

\* The live settings exist or not; slot A holds a snapshot loaded from
\* storage or nothing.
SnapInit ==
    /\ mode = "snapshot"
    /\ \E config \in LiveConfigs \cup {Null}, supplied \in GenSnapshots \cup {Null} :
           LET live == IF config = Null THEN [heap |-> <<>>]
                       ELSE StoreArrays(<<>>, config.prompts, config.prompt_order)
               held == IF supplied = Null THEN [heap |-> live.heap]
                       ELSE StoreArrays(live.heap, supplied.prompts, supplied.promptOrder)
               kept == Kept(held.heap,
                            IF config = Null THEN Null
                            ELSE [prompts |-> live.prompts, prompt_order |-> live.order],
                            [k \in Slots |->
                                IF k = "A" /\ supplied # Null
                                THEN [prompts |-> held.prompts, promptOrder |-> held.order]
                                ELSE Null],
                            IdleGen)
           IN  /\ heap = kept.heap
               /\ settingsAt = kept.settings
               /\ slot = kept.slot
               /\ gen = kept.gen
               /\ taken = [k \in Slots |-> IF k = "A" THEN supplied ELSE Null]
    /\ lastOp = NoOp

\* selectedSlotB = captureCurrentPromptState()
Capture ==
    LET c == captureCurrentPromptStateIn(heap, settingsAt)
    IN  /\ mode = "snapshot"
        /\ Becomes(Kept(c.heap, settingsAt, [slot EXCEPT !["B"] = c.state], gen))
        /\ taken' = [taken EXCEPT !["B"] = SnapshotValue(c.heap, c.state)]
        /\ lastOp' = [op |-> "capture", ok |-> IF c.state = Null THEN "null" ELSE "state",
                      times |-> 0]
        /\ UNCHANGED <<mode, genVars, diffVars, lineVars, wordVars>>

\* applyPromptState(selectedSlot)
Apply(k) ==
    LET a == applyPromptStateIn(heap, settingsAt, slot[k])
    IN  /\ mode = "snapshot"
        /\ Becomes(Kept(a.heap, a.settings, slot, gen))
        /\ lastOp' = [op |-> "apply", ok |-> IF a.ok THEN "true" ELSE "false", times |-> 0]
        /\ UNCHANGED <<mode, taken, genVars, diffVars, lineVars, wordVars>>

\* applyPromptState(captureCurrentPromptState())
ApplyCaptured ==
    LET c == captureCurrentPromptStateIn(heap, settingsAt)
        a == applyPromptStateIn(c.heap, settingsAt, c.state)
    IN  /\ mode = "snapshot"
        /\ lastOp.op = "reapply" => lastOp.times < MaxRepeat
        /\ Becomes(Kept(a.heap, a.settings, slot, gen))
        /\ lastOp' = [op |-> "reapply", ok |-> IF a.ok THEN "true" ELSE "false",
                      times |-> IF lastOp.op = "reapply" THEN lastOp.times + 1 ELSE 1]
        /\ UNCHANGED <<mode, taken, genVars, diffVars, lineVars, wordVars>>

\* The host rewrites the content of a live prompt in place.
EditContent(i, content) ==
    /\ mode = "snapshot"
    /\ settingsAt # Null
    /\ i \in 1..Len(heap[settingsAt.prompts].kids)
    /\ LET at == heap[settingsAt.prompts].kids[i]
       IN  /\ heap[at].data.identifier \in EditedPrompts
           /\ heap[at].data.content # content
           /\ heap' = [heap EXCEPT ![at].data.content = content]
    /\ lastOp' = NoOp
    /\ UNCHANGED <<mode, settingsAt, slot, taken, gen, genVars, diffVars, lineVars, wordVars>>

\* The host switches an entry of a live order list in place.
SetEnabled(l, e, enabled) ==
    /\ mode = "snapshot"
    /\ settingsAt # Null
    /\ l \in 1..Len(heap[settingsAt.prompt_order].kids)
    /\ LET list  == heap[heap[settingsAt.prompt_order].kids[l]]
           order == heap[list.kids[1]]
       IN  /\ e \in 1..Len(order.kids)
           /\ heap[order.kids[e]].data.identifier \in ToggledEntries
           /\ heap[order.kids[e]].data.enabled # enabled
           /\ heap' = [heap EXCEPT ![order.kids[e]].data.enabled = enabled]
    /\ lastOp' = NoOp
    /\ UNCHANGED <<mode, settingsAt, slot, taken, gen, genVars, diffVars, lineVars, wordVars>>

\* generateWithState(selectedSlot, ...) up to its await (lines 102-123):
\* originalState is captured, then the slot's snapshot is applied.
GenStart(k) ==
    LET c == captureCurrentPromptStateIn(heap, settingsAt)
        a == applyPromptStateIn(c.heap, settingsAt, slot[k])
    IN  /\ mode = "snapshot"
        /\ gen.pc = "idle"
        /\ Becomes(Kept(a.heap, a.settings, slot,
                        [pc |-> "awaiting", originalState |-> c.state,
                         taken |-> SnapshotValue(c.heap, c.state)]))
        /\ lastOp' = NoOp
        /\ UNCHANGED <<mode, taken, genVars, diffVars, lineVars, wordVars>>

\* generateWithState from the settlement of the generation (lines 144-151):
\* if (originalState) applyPromptState(originalState).
GenEnd ==
    LET a == IF gen.originalState # Null
             THEN applyPromptStateIn(heap, settingsAt, gen.originalState)
             ELSE [heap |-> heap, settings |-> settingsAt, ok |-> FALSE]
    IN  /\ mode = "snapshot"
        /\ gen.pc = "awaiting"
        /\ Becomes(Kept(a.heap, a.settings, slot, IdleGen))
        /\ lastOp' = NoOp
        /\ UNCHANGED <<mode, taken, genVars, diffVars, lineVars, wordVars>>

\* currentDifferences = getPromptDifferences(selectedSlotA, selectedSlotB)
CompareSlots ==
    /\ mode = "snapshot"
    /\ differences' = getPromptDifferences(SnapshotValue(heap, slot["A"]),
                                           SnapshotValue(heap, slot["B"]))
    /\ lastOp' = NoOp
    /\ UNCHANGED <<mode, stateA, stateB, heap, settingsAt, slot, taken, gen,
                   genVars, lineVars, wordVars>>

InitSnap == SnapInit /\ GenIdle /\ DiffIdle /\ LineIdle /\ WordIdle

NextSnap ==
    \/ Capture
    \/ \E k \in Slots : Apply(k)
    \/ ApplyCaptured
    \/ \E i \in 1..MaxPrompts, content \in EditContents : EditContent(i, content)
    \/ \E l \in 1..MaxOrders, e \in 1..MaxPrompts, enabled \in {"true", "false"} :
           SetEnabled(l, e, enabled)
    \/ \E k \in Slots : GenStart(k)
    \/ GenEnd
    \/ CompareSlots

SpecSnap == InitSnap /\ [][NextSnap]_vars

-----------------------------------------------------------------------------
(* runABTest (src/index.js 872-926): generateWithState for slot A, awaited, *)
(* then generateWithState for slot B, awaited.  Invocation 1 is the one for *)
(* slot A and invocation 2 the one for slot B.                              *)

\* document.getElementById('abtest-input')?.value?.trim() || ''
InputText(input) == IF input = Null THEN <<>> ELSE Trim(input.str)

\* const stateB = selectedSlotB || captureCurrentPromptState()
SlotBState(selectedSlotB, settings) ==
    IF selectedSlotB # Null THEN selectedSlotB
    ELSE captureCurrentPromptState(settings)

\* The early returns of lines 873-897.
Refused(t, settings, transcript) ==
    \/ t.selectedSlotA = Null
    \/ SlotBState(t.selectedSlotB, settings) = Null
    \/ transcript = <<>>
    \/ ~t.elements

\* Mutant: the call is not awaited.
Awaited_Immediately(invocation) == TRUE

\* await generateWithState(...): the promise has settled.
Awaited(invocation) == invocation.pc \in {"returned", "raised"}

\* Each slot holds a captured snapshot (lines 338, 556, 605-615) or nothing;
\* the input holds a text or is missing; the result elements are there or
\* not.
ABInit ==
    /\ mode = "abtest"
    /\ serviceSettings \in LiveConfigs \cup {Null}
    /\ chat \in InitialChats
    /\ inv = [i \in Invocations |-> IdleInv]
    /\ pre = [i \in Invocations |-> NoPre]
    /\ atCall = [i \in Invocations |-> NoPre]
    /\ during = [i \in Invocations |-> {}]
    /\ event = NoEvent
    /\ test \in {[NoTest EXCEPT !.selectedSlotA = a, !.selectedSlotB = b,
                                 !.input = x, !.elements = e] :
                     a \in GenSnapshots \cup {Null}, b \in GenSnapshots \cup {Null},
                     x \in TestMessages, e \in BOOLEAN}

\* Lines 873-909: the checks, then generateWithState(selectedSlotA, ...) up
\* to its await.
RunABTest ==
    /\ test.pc = "idle"
    /\ IF Refused(test, serviceSettings, chat)
       THEN /\ test' = [test EXCEPT !.pc = "refused",
                                    !.before = [settings |-> serviceSettings, chat |-> chat]]
            /\ UNCHANGED <<mode, serviceSettings, chat, inv, pre, atCall, during, event,
                           diffVars, lineVars, wordVars, snapVars>>
       ELSE /\ test' = [test EXCEPT !.pc = "awaitA",
                                    !.stateB = SlotBState(test.selectedSlotB, serviceSettings),
                                    !.testMessage = Str(InputText(test.input)),
                                    !.before = [settings |-> serviceSettings, chat |-> chat]]
            /\ Start(1, test.selectedSlotA, Str(InputText(test.input)),
                     [element |-> "abtest-result-a"])

\* Lines 909-910: responseA has arrived and generateWithState(stateB, ...)
\* runs up to its await; or the awaited call raised and lines 915-925 run.
ContinueAfterA ==
    /\ test.pc = "awaitA"
    /\ Awaited(inv[1])
    /\ IF inv[1].pc = "raised"
       THEN /\ test' = [test EXCEPT !.pc = "failed"]
            /\ UNCHANGED <<mode, serviceSettings, chat, inv, pre, atCall, during, event,
                           diffVars, lineVars, wordVars, snapVars>>
       ELSE /\ test' = [test EXCEPT !.pc = "awaitB"]
            /\ Start(2, test.stateB, test.testMessage, [element |-> "abtest-result-b"])

\* Lines 910-925: responseB has arrived and both are shown; or the awaited
\* call raised.
ContinueAfterB ==
    /\ test.pc = "awaitB"
    /\ Awaited(inv[2])
    /\ test' = [test EXCEPT !.pc = IF inv[2].pc = "raised" THEN "failed" ELSE "shown"]
    /\ UNCHANGED <<mode, serviceSettings, chat, inv, pre, atCall, during, event,
                   diffVars, lineVars, wordVars, snapVars>>

InitAB == ABInit /\ DiffIdle /\ LineIdle /\ WordIdle /\ SnapIdle

NextAB ==
    \/ RunABTest
    \/ ContinueAfterA
    \/ ContinueAfterB
    \/ \E i \in Invocations, text \in CallbackTexts : Callback(i, text) /\ UNCHANGED test
    \/ \E i \in Invocations, result \in ResolveValues : Resolve(i, result) /\ UNCHANGED test
    \/ \E i \in Invocations, error \in RejectValues : Reject(i, error) /\ UNCHANGED test

SpecAB == InitAB /\ [][NextAB]_vars

-----------------------------------------------------------------------------
(* Properties of the substitution controller.                              *)

Settling(i) == inv[i].pc \in {"returned", "raised"}

Live == [settings |-> serviceSettings, chat |-> chat]

NoOverlap == Suspended = {} /\ \A j \in Invocations : during[j] = {}

\* C1: once an invocation that overlapped no other has ended (generation
\* resolved with text, resolved with nothing, or rejected), the live
\* transcript and the live configuration have the values they had immediately
\* before the call.
C1_Restored ==
    \A i \in Invocations :
        (Settling(i) /\ NoOverlap) => Live = pre[i]

\* An invocation ended after a generation that ran under a substituted
\* configuration and a transcript with the test entry appended.
C1_Witness ==
    /\ inv[1].pc = "returned"
    /\ inv[1].ret = Str("r1")
    /\ inv[2].pc = "idle"
    /\ atCall[1].settings # pre[1].settings
    /\ atCall[1].chat # pre[1].chat
    /\ pre[1].chat # <<>>

\* C2: generateWithState never raises to its caller: every invocation ends by
\* returning the generated text or an error-description string.
C2_NeverRaises ==
    \A i \in Invocations : inv[i].pc # "raised"

\* C3: nothing keeps a second invocation from starting while a first is
\* suspended, and when the first then ends before the second, the second's
\* restoration puts back the state the first had substituted: the live
\* configuration and transcript are left as they were at the first one's
\* generation call, not as they were before it started.
C3_Race ==
    [][\A i, j \in Invocations :
          (/\ during[j] = {i}
           /\ Settling(i)
           /\ inv[j].pc = "awaiting"
           /\ inv'[j].pc \in {"returned", "raised"})
          => (serviceSettings' = atCall[i].settings /\ chat' = atCall[i].chat)]_vars

\* Both overlapping invocations have ended and the live configuration and
\* the live transcript both differ from their values before the first began.
C3_Witness ==
    /\ during[2] = {1}
    /\ Settling(1)
    /\ Settling(2)
    /\ serviceSettings # pre[1].settings
    /\ chat # pre[1].chat

\* The positions of a text that hold no whitespace.
Inked(t) == {k \in 1..Len(t) : ~IsSpace(t[k])}

\* A text from its first to its last character that is no whitespace.
Core(t) ==
    SubSeq(t, CHOOSE k \in Inked(t) : \A j \in Inked(t) : k <= j,
              CHOOSE k \in Inked(t) : \A j \in Inked(t) : k >= j)

\* C16: when generateWithState calls the generation collaborator, the live
\* transcript is the transcript before the call followed by one user entry
\* holding the trimmed test message if that message has a character that is
\* no whitespace, and is the transcript before the call otherwise (message
\* absent, empty or blank); the live configuration is then already the
\* snapshot's, if there is a snapshot and a configuration to write to.
C16_AtGenerate ==
    \A i \in Invocations :
        inv[i].pc = "awaiting" =>
            /\ IF inv[i].testMessage # Null /\ Inked(inv[i].testMessage.str) # {}
               THEN atCall[i].chat =
                        Append(pre[i].chat,
                               [name |-> "name1", is_user |-> TRUE,
                                mes |-> Core(inv[i].testMessage.str)])
               ELSE atCall[i].chat = pre[i].chat
            /\ (pre[i].settings # Null /\ inv[i].state # Null) =>
                   atCall[i].settings = [prompts      |-> inv[i].state.prompts,
                                         prompt_order |-> inv[i].state.promptOrder]

\* An invocation is suspended in generation with the message " ok\n": the
\* transcript, not empty before, has grown by the entry "ok", and the
\* configuration is the snapshot's and no longer the one before.
C16_Witness ==
    /\ inv[1].pc = "awaiting"
    /\ inv[1].testMessage = Str(<<" ", "o", "k", "\n">>)
    /\ Len(pre[1].chat) = 2
    /\ Len(atCall[1].chat) = 3
    /\ atCall[1].chat[3].mes = <<"o", "k">>
    /\ pre[1].settings # Null
    /\ atCall[1].settings # pre[1].settings

\* C17: when generation resolves, the invocation returns the resolved text
\* if one is given (not empty), however many callbacks came before and
\* whatever they carried, and otherwise the partial text; the partial text
\* is empty when the invocation starts and each callback replaces it by the
\* text it carries.
C17_ReturnedText ==
    [][\A i \in Invocations :
          /\ (inv[i].pc = "idle" /\ inv'[i].pc = "awaiting") => inv'[i].fullText = ""
          /\ (inv'[i].pc = "awaiting" /\ event' # event
                 /\ event'.inv = i /\ event'.kind = "callback") =>
                 inv'[i].fullText = event'.value.str
          /\ (inv[i].pc = "awaiting" /\ inv'[i].pc # "awaiting"
                 /\ event'.inv = i /\ event'.kind = "resolved") =>
                 /\ inv'[i].pc = "returned"
                 /\ inv'[i].ret =
                        Str(IF event'.value # Null /\ event'.value.str # ""
                            THEN event'.value.str
                            ELSE inv[i].fullText)]_vars

\* After a callback with "t1" an invocation resolved with a text and
\* returned it, and after callbacks the other resolved with nothing and
\* returned the partial text "t2".
C17_Witness ==
    /\ inv[1].pc = "returned"
    /\ inv[1].ret = Str("r1")
    /\ inv[2].pc = "returned"
    /\ inv[2].ret = Str("t2")
    /\ event = [inv |-> 2, kind |-> "resolved", value |-> Null]

\* C18: without the configuration collaborator captureCurrentPromptState
\* returns null and applyPromptState returns false and writes nothing; an
\* invocation then has no originalState, still ends by returning what
\* generation resolved with, leaves the configuration absent and puts the
\* transcript back.  applyPromptState also returns false and writes nothing
\* when the snapshot is absent.
C18_Unavailable ==
    /\ serviceSettings = Null =>
           /\ captureCurrentPromptState(serviceSettings) = Null
           /\ \A s \in GenSnapshots \cup {Null} :
                  applyPromptState(serviceSettings, s) = [ok |-> FALSE, settings |-> Null]
    /\ applyPromptState(serviceSettings, Null)
           = [ok |-> FALSE, settings |-> serviceSettings]
    /\ \A i \in Invocations :
           /\ (inv[i].pc = "awaiting" /\ inv[i].state = Null) =>
                  atCall[i].settings = pre[i].settings
           /\ (inv[i].pc = "awaiting" /\ pre[i].settings = Null) =>
                  /\ inv[i].originalState = Null
                  /\ atCall[i].settings = Null
           /\ (Settling(i) /\ pre[i].settings = Null) =>
                  /\ serviceSettings = Null
                  /\ NoOverlap => chat = pre[i].chat
                  /\ (event = [inv |-> i, kind |-> "resolved", value |-> Str("r1")]) =>
                         (inv[i].pc = "returned" /\ inv[i].ret = Str("r1"))

\* Without the collaborator an invocation pushed the test entry onto a
\* transcript of two, generated, returned the text, and the transcript is
\* again the one before.
C18_Witness ==
    /\ serviceSettings = Null
    /\ pre[1].settings = Null
    /\ inv[1].pc = "returned"
    /\ inv[1].ret = Str("r1")
    /\ inv[2].pc = "idle"
    /\ Len(pre[1].chat) = 2
    /\ Len(atCall[1].chat) = 3
    /\ chat = pre[1].chat

-----------------------------------------------------------------------------
(* Properties of getPromptDifferences.                                     *)

DiffDone == mode = "diff_done"

BothPresent == stateA # Null /\ stateB # Null

\* The identifiers of a snapshot's prompts.
IdsOf(s) == {s.prompts[i].identifier : i \in 1..Len(s.prompts)}

\* prompts keys are unique within the snapshot.
UniqueIds(s) ==
    \A i, j \in 1..Len(s.prompts) :
        s.prompts[i].identifier = s.prompts[j].identifier => i = j

\* The fragment a snapshot with unique keys holds under an identifier.
FragmentOf(s, id) ==
    s.prompts[CHOOSE i \in 1..Len(s.prompts) : s.prompts[i].identifier = id]

\* The positions of the returned records of one type for one identifier.
RecordsAt(type, id) ==
    {n \in 1..Len(differences) :
        differences[n].type = type /\ differences[n].identifier = id}

\* The positions of all returned records for one identifier.
AllRecordsAt(id) ==
    {n \in 1..Len(differences) : differences[n].identifier = id}

\* The order lists of a snapshot that hold an entry for k, by position.
ListsWith(s, k) ==
    {i \in 1..Len(s.promptOrder) :
        /\ "order" \in DOMAIN s.promptOrder[i]
        /\ \E e \in 1..Len(s.promptOrder[i].order) :
               s.promptOrder[i].order[e].identifier = k}

\* The enabled value of k's entry in one order list.
FlagIn(list, k) ==
    LET entry == list.order[CHOOSE e \in 1..Len(list.order) : list.order[e].identifier = k]
    IN  IF "enabled" \in DOMAIN entry THEN entry.enabled ELSE Undefined

\* The enabled flag of k: that of the first order list holding k.
FirstFlag(s, k) ==
    IF ListsWith(s, k) = {} THEN Undefined
    ELSE FlagIn(s.promptOrder[CHOOSE i \in ListsWith(s, k) :
                                  \A j \in ListsWith(s, k) : i <= j], k)

\* The comparison with the arguments exchanged.
Reverse == getPromptDifferences(stateB, stateA)

\* C4: comparing a snapshot with itself returns the empty sequence.
C4_SelfDiffEmpty ==
    (DiffDone /\ stateA = stateB) => differences = <<>>

\* A snapshot whose two order lists hold p1 with different flags was
\* compared with itself.
C4_Witness ==
    /\ DiffDone
    /\ stateA = stateB
    /\ stateA # Null
    /\ Cardinality(ListsWith(stateA, "p1")) = 2
    /\ FlagIn(stateA.promptOrder[1], "p1") # FlagIn(stateA.promptOrder[2], "p1")
    /\ differences = <<>>

\* Record q of one direction is the inverse of record r of the other.
InverseOf(r, q) ==
    /\ q.identifier = r.identifier
    /\ CASE r.type = "added"   -> q.type = "removed" /\ q.name = r.name
         [] r.type = "removed" -> q.type = "added" /\ q.name = r.name
         [] r.type = "content_changed" ->
                /\ q.type = "content_changed"
                /\ q.contentA = r.contentB
                /\ q.contentB = r.contentA
         [] r.type = "enabled_changed" ->
                /\ q.type = "enabled_changed"
                /\ q.enabledA = r.enabledB
                /\ q.enabledB = r.enabledA

\* C5: the two directions of a comparison are consistent inverses: an added
\* record of one is a removed record of the other with the same identifier
\* and name, and a content_changed or enabled_changed record of one is a
\* record of the same type and identifier of the other with its A and B
\* fields exchanged.
C5_Inverses ==
    DiffDone =>
        /\ \A n \in 1..Len(differences) :
               \E m \in 1..Len(Reverse) : InverseOf(differences[n], Reverse[m])
        /\ \A m \in 1..Len(Reverse) :
               \E n \in 1..Len(differences) : InverseOf(Reverse[m], differences[n])

\* A comparison that returned an added, a content_changed and an
\* enabled_changed record.
C5_Witness ==
    /\ DiffDone
    /\ \E n \in 1..Len(differences) : differences[n].type = "added"
    /\ \E n \in 1..Len(differences) : differences[n].type = "content_changed"
    /\ \E n \in 1..Len(differences) : differences[n].type = "enabled_changed"

\* C6: for snapshots with unique identifiers there is exactly one removed
\* record per identifier of A missing from B, exactly one added record per
\* identifier of B missing from A, none for any other identifier, and an
\* identifier reported removed or added has no other record.
C6_AddedRemoved ==
    (DiffDone /\ BothPresent /\ UniqueIds(stateA) /\ UniqueIds(stateB)) =>
        \A id \in DiffIds :
            /\ Cardinality(RecordsAt("removed", id))
                   = IF id \in IdsOf(stateA) \ IdsOf(stateB) THEN 1 ELSE 0
            /\ Cardinality(RecordsAt("added", id))
                   = IF id \in IdsOf(stateB) \ IdsOf(stateA) THEN 1 ELSE 0
            /\ (RecordsAt("removed", id) \cup RecordsAt("added", id) # {})
                   => Cardinality(AllRecordsAt(id)) = 1

\* p2, held by an order list of A, was reported removed while p1, present on
\* both sides, was reported changed.
C6_Witness ==
    /\ DiffDone
    /\ BothPresent
    /\ UniqueIds(stateA)
    /\ UniqueIds(stateB)
    /\ RecordsAt("removed", "p2") # {}
    /\ RecordsAt("content_changed", "p1") # {}
    /\ FirstFlag(stateA, "p2") # Undefined

\* C7: for an identifier on both sides there is a content_changed record
\* exactly when the two contents are not the same string, it carries A's
\* content as contentA and B's as contentB, and the enabled flags play no
\* part: with equal contents a flipped flag yields an enabled_changed record
\* only.
C7_ContentChanged ==
    (DiffDone /\ BothPresent /\ UniqueIds(stateA) /\ UniqueIds(stateB)) =>
        \A id \in IdsOf(stateA) \cap IdsOf(stateB) :
            LET cA == FragmentOf(stateA, id).content
                cB == FragmentOf(stateB, id).content
            IN  /\ Cardinality(RecordsAt("content_changed", id))
                       = IF cA # cB THEN 1 ELSE 0
                /\ \A n \in RecordsAt("content_changed", id) :
                       differences[n].contentA = cA /\ differences[n].contentB = cB
                /\ (cA = cB) => AllRecordsAt(id) = RecordsAt("enabled_changed", id)

\* p1 kept its content and went from enabled to disabled: one
\* enabled_changed record; p2 changed in content and flag: both records.
C7_Witness ==
    /\ DiffDone
    /\ BothPresent
    /\ UniqueIds(stateA)
    /\ UniqueIds(stateB)
    /\ \E n \in 1..Len(differences) :
           /\ differences[n].type = "enabled_changed"
           /\ differences[n].identifier = "p1"
           /\ differences[n].enabledA = "true"
           /\ differences[n].enabledB = "false"
    /\ RecordsAt("content_changed", "p1") = {}
    /\ RecordsAt("content_changed", "p2") # {}
    /\ RecordsAt("enabled_changed", "p2") # {}

\* C8: for an identifier on both sides there is an enabled_changed record
\* exactly when the flags resolved from the first order list holding it
\* (undefined when none holds it) differ between A and B; a later list
\* holding it has no influence.
C8_EnabledChanged ==
    (DiffDone /\ BothPresent /\ UniqueIds(stateA) /\ UniqueIds(stateB)) =>
        \A id \in IdsOf(stateA) \cap IdsOf(stateB) :
            Cardinality(RecordsAt("enabled_changed", id))
                = IF FirstFlag(stateA, id) # FirstFlag(stateB, id) THEN 1 ELSE 0

\* A holds p1 disabled in its first list and enabled in its second, B holds
\* p1 enabled: the record is there although the later list of A agrees with B.
C8_Witness ==
    /\ DiffDone
    /\ BothPresent
    /\ Cardinality(ListsWith(stateA, "p1")) = 2
    /\ FlagIn(stateA.promptOrder[1], "p1") = "false"
    /\ FlagIn(stateA.promptOrder[2], "p1") = "true"
    /\ FirstFlag(stateB, "p1") = "true"
    /\ RecordsAt("enabled_changed", "p1") # {}

\* C9: with either argument absent the result is the empty sequence,
\* whatever the other argument holds.
C9_AbsentGivesEmpty ==
    (DiffDone /\ ~BothPresent) => differences = <<>>

\* An absent A was compared with a snapshot that holds a fragment.
C9_Witness ==
    /\ DiffDone
    /\ stateA = Null
    /\ stateB # Null
    /\ stateB.prompts # <<>>
    /\ differences = <<>>

\* The index at which an identifier first appears in a snapshot's prompts.
FirstPos(s, id) ==
    CHOOSE i \in 1..Len(s.prompts) :
        /\ s.prompts[i].identifier = id
        /\ \A j \in 1..(i - 1) : s.prompts[j].identifier # id

\* C15: the records come in two blocks.  First those for the identifiers of
\* A, identifier by identifier in the order of their first appearance in
\* A.prompts, content_changed before enabled_changed within one identifier;
\* then the added records in the order of their identifiers' first
\* appearance in B.prompts.  No added record precedes a record of another type.
C15_RecordOrder ==
    (DiffDone /\ BothPresent) =>
        \A n, m \in 1..Len(differences) :
            n < m =>
                LET r == differences[n]
                    q == differences[m]
                IN  /\ r.type = "added" => q.type = "added"
                    /\ (r.type = "added" /\ q.type = "added") =>
                           FirstPos(stateB, r.identifier) < FirstPos(stateB, q.identifier)
                    /\ (r.type # "added" /\ q.type # "added") =>
                           /\ FirstPos(stateA, r.identifier) <= FirstPos(stateA, q.identifier)
                           /\ r.identifier = q.identifier =>
                                  /\ r.type = "content_changed"
                                  /\ q.type = "enabled_changed"

\* A holds p2 before p1, B holds p3 before p1 before p2: the records are
\* p2's content and flag, p1's content and flag, and last the addition of
\* p3, although B lists p3 first and p1 before p2.
C15_Witness ==
    /\ DiffDone
    /\ BothPresent
    /\ Len(stateA.prompts) = 2
    /\ stateA.prompts[1].identifier = "p2"
    /\ Len(stateB.prompts) = 3
    /\ stateB.prompts[1].identifier = "p3"
    /\ stateB.prompts[2].identifier = "p1"
    /\ Len(differences) = 5
    /\ differences[1].type = "content_changed" /\ differences[1].identifier = "p2"
    /\ differences[2].type = "enabled_changed" /\ differences[2].identifier = "p2"
    /\ differences[3].type = "content_changed" /\ differences[3].identifier = "p1"
    /\ differences[4].type = "enabled_changed" /\ differences[4].identifier = "p1"
    /\ differences[5].type = "added" /\ differences[5].identifier = "p3"

-----------------------------------------------------------------------------
(* Properties of computeLineDiff.                                          *)

LineDone == mode = "line_done"

NewlinesOf(t) == {i \in 1..Len(t) : t[i] = "\n"}

\* A text has one line more than it has newline characters.
NumLines(t) == Cardinality(NewlinesOf(t)) + 1

\* The position of the k-th newline of a text.
NthNewline(t, k) ==
    CHOOSE i \in NewlinesOf(t) : Cardinality({j \in NewlinesOf(t) : j <= i}) = k

\* The k-th line: the characters after the (k-1)-th newline and before the k-th.
LineOf(t, k) ==
    LET from == IF k = 1 THEN 1 ELSE NthNewline(t, k - 1) + 1
        to   == IF k = NumLines(t) THEN Len(t) ELSE NthNewline(t, k) - 1
    IN  SubSeq(t, from, to)

\* What the two results hold at index i, by the lines present there.
LineRecordsAt(i) ==
    LET hasA == i <= NumLines(textA)
        hasB == i <= NumLines(textB)
        rA   == lineDiff.resultA[i]
        rB   == lineDiff.resultB[i]
    IN  CASE hasA /\ ~hasB ->
                /\ rA = [text |-> LineOf(textA, i), type |-> "removed"]
                /\ rB = [text |-> <<>>, type |-> "empty"]
          [] ~hasA /\ hasB ->
                /\ rA = [text |-> <<>>, type |-> "empty"]
                /\ rB = [text |-> LineOf(textB, i), type |-> "added"]
          [] hasA /\ hasB /\ LineOf(textA, i) = LineOf(textB, i) ->
                /\ rA = [text |-> LineOf(textA, i), type |-> "same"]
                /\ rB = [text |-> LineOf(textB, i), type |-> "same"]
          [] hasA /\ hasB /\ LineOf(textA, i) # LineOf(textB, i) ->
                /\ rA = [text |-> LineOf(textA, i), type |-> "changed",
                         wordDiff |-> computeWordDiff(LineOf(textA, i), LineOf(textB, i)).diffA]
                /\ rB = [text |-> LineOf(textB, i), type |-> "changed",
                         wordDiff |-> computeWordDiff(LineOf(textA, i), LineOf(textB, i)).diffB]

\* C10: both results are as long as the longer text has lines, and at every
\* index equal lines are same/same, a line of A alone is removed/empty, a
\* line of B alone is empty/added, and two unequal lines are changed on both
\* sides, each with its side of the word diff of the pair; a text compared
\* with itself is same on both sides throughout.
C10_LineDiff ==
    LineDone =>
        LET n == Max(NumLines(textA), NumLines(textB))
        IN  /\ Len(lineDiff.resultA) = n
            /\ Len(lineDiff.resultB) = n
            /\ \A i \in 1..n : LineRecordsAt(i)
            /\ (textA = textB) =>
                   \A i \in 1..n : /\ lineDiff.resultA[i].type = "same"
                                   /\ lineDiff.resultB[i].type = "same"

\* Two texts of two lines each, the first lines equal and the second not,
\* the changed line carrying a non-empty word diff.
C10_Witness ==
    /\ LineDone
    /\ Len(lineDiff.resultA) = 2
    /\ lineDiff.resultA[1] = [text |-> <<"a">>, type |-> "same"]
    /\ lineDiff.resultB[2].type = "changed"
    /\ lineDiff.resultA[2].wordDiff = << [text |-> <<"b">>, type |-> "removed"] >>
    /\ lineDiff.resultB[2].wordDiff = << [text |-> <<"a">>, type |-> "added"] >>

-----------------------------------------------------------------------------
(* Properties of computeWordDiff.                                          *)

WordDone == mode = "word_done"

\* The texts of a sequence of word records, joined in order.
RECURSIVE JoinTexts(_)
JoinTexts(records) ==
    IF records = <<>> THEN <<>>
    ELSE Head(records).text \o JoinTexts(Tail(records))

\* C11: the texts of diffA joined in order are lineA, and those of diffB are
\* lineB: whitespace runs are kept and no token is dropped, repeated or
\* replaced.
C11_RoundTrip ==
    WordDone => /\ JoinTexts(wordDiff.diffA) = lineA
                /\ JoinTexts(wordDiff.diffB) = lineB

\* A line that begins with a run of two different whitespace characters was
\* compared with a line that ends in whitespace: A's records are the empty
\* word, the run and the letter.
C11_Witness ==
    /\ WordDone
    /\ lineA = <<" ", "\t", "a">>
    /\ lineB = <<"a", " ">>
    /\ Len(wordDiff.diffA) = 3
    /\ wordDiff.diffA[1].text = <<>>
    /\ wordDiff.diffA[2].text = <<" ", "\t">>
    /\ wordDiff.diffB[3].text = <<>>

\* The positions at which a maximal whitespace run of a line begins, ends.
RunStarts(l) == {i \in 1..Len(l) : IsSpace(l[i]) /\ (i = 1 \/ ~IsSpace(l[i - 1]))}

RunEnds(l) == {i \in 1..Len(l) : IsSpace(l[i]) /\ (i = Len(l) \/ ~IsSpace(l[i + 1]))}

\* The k-th smallest element of a set of numbers.
Nth(S, k) == CHOOSE i \in S : Cardinality({j \in S : j <= i}) = k

\* A line with r whitespace runs has 2r + 1 tokens: the words (possibly
\* empty) at the odd indices and the runs at the even ones.
NumTokens(l) == 2 * Cardinality(RunStarts(l)) + 1

TokenOf(l, k) ==
    IF k % 2 = 0
    THEN SubSeq(l, Nth(RunStarts(l), k \div 2), Nth(RunEnds(l), k \div 2))
    ELSE LET m    == (k + 1) \div 2
             from == IF m = 1 THEN 1 ELSE Nth(RunEnds(l), m - 1) + 1
             to   == IF k = NumTokens(l) THEN Len(l) ELSE Nth(RunStarts(l), m) - 1
         IN  SubSeq(l, from, to)

\* C12: tokens are compared by index only.  Each side has one record per
\* token of that side, carrying the token; a token equal to the other side's
\* token at the same index is "same", any other token of A (unequal, or
\* beyond B's tokens) is "removed" and any other token of B is "added"; no
\* record is "changed" or "empty" and no shifted token is matched.
C12_Positional ==
    WordDone =>
        LET nA == NumTokens(lineA)
            nB == NumTokens(lineB)
        IN  /\ Len(wordDiff.diffA) = nA
            /\ Len(wordDiff.diffB) = nB
            /\ \A i \in 1..nA :
                   wordDiff.diffA[i] =
                       [text |-> TokenOf(lineA, i),
                        type |-> IF i <= nB /\ TokenOf(lineB, i) = TokenOf(lineA, i)
                                 THEN "same" ELSE "removed"]
            /\ \A i \in 1..nB :
                   wordDiff.diffB[i] =
                       [text |-> TokenOf(lineB, i),
                        type |-> IF i <= nA /\ TokenOf(lineA, i) = TokenOf(lineB, i)
                                 THEN "same" ELSE "added"]

\* "a b" was compared with "b": the word b, shifted by two tokens, is not
\* matched; all of A is removed and B's only token is added.
C12_Witness ==
    /\ WordDone
    /\ lineA = <<"a", " ", "b">>
    /\ lineB = <<"b">>
    /\ wordDiff.diffA = << [text |-> <<"a">>, type |-> "removed"],
                           [text |-> <<" ">>, type |-> "removed"],
                           [text |-> <<"b">>, type |-> "removed"] >>
    /\ wordDiff.diffB = << [text |-> <<"b">>, type |-> "added"] >>

-----------------------------------------------------------------------------
(* Properties of the snapshot model.                                       *)

LiveValue == SettingsValue(heap, settingsAt)

\* The addresses reachable from a set of addresses.
RECURSIVE ReachFrom(_, _)
ReachFrom(h, S) ==
    LET next == S \cup UNION {{h[a].kids[i] : i \in 1..Len(h[a].kids)} : a \in S}
    IN  IF next = S THEN S ELSE ReachFrom(h, next)

\* The addresses a settings object or a snapshot holds directly.
RefsOf(x) == IF x = Null THEN {} ELSE {x[f] : f \in DOMAIN x}

\* The objects of a settings object or a snapshot.
ObjectsOf(h, x) == ReachFrom(h, RefsOf(x))

\* C13: with the live settings available, applyPromptState(
\* captureCurrentPromptState()) returns true and leaves prompts and
\* prompt_order equal in value to what they were, each time it is done.
C13_ApplyCaptured ==
    [][(lastOp'.op = "reapply" /\ settingsAt # Null) =>
           /\ lastOp'.ok = "true"
           /\ LiveValue' = LiveValue]_vars

\* It was done twice in a row on settings the host had edited, which hold
\* two prompts and differ from both snapshots held.
C13_Witness ==
    /\ lastOp = [op |-> "reapply", ok |-> "true", times |-> 2]
    /\ settingsAt # Null
    /\ Len(LiveValue.prompts) = 2
    /\ LiveValue.prompts[2].content = "Bye"
    /\ slot["A"] # Null
    /\ slot["B"] # Null

\* C14: a snapshot keeps the value it had when it was taken, whatever is
\* captured, applied, generated, compared or edited afterwards: every slot's
\* snapshot and the originalState of a running invocation still have that
\* value, and the live settings share no object with any of them.
C14_SnapshotsKept ==
    /\ \A k \in Slots :
           /\ SnapshotValue(heap, slot[k]) = taken[k]
           /\ ObjectsOf(heap, settingsAt) \cap ObjectsOf(heap, slot[k]) = {}
    /\ SnapshotValue(heap, gen.originalState) = gen.taken
    /\ ObjectsOf(heap, settingsAt) \cap ObjectsOf(heap, gen.originalState) = {}

\* Slot A's snapshot was applied by a running invocation and the host then
\* edited the live settings: they differ from slot A, from the captured
\* slot B and from originalState, and the slots have been compared.
C14_Witness ==
    /\ gen.pc = "awaiting"
    /\ gen.originalState # Null
    /\ slot["A"] # Null
    /\ slot["B"] # Null
    /\ Len(LiveValue.prompts) = 2
    /\ LiveValue.prompts[2].content = "Bye"
    /\ LiveValue.prompts # taken["A"].prompts
    /\ LiveValue.prompts # taken["B"].prompts
    /\ LiveValue.prompts # gen.taken.prompts
    /\ LiveValue.prompt_order # taken["A"].promptOrder
    /\ differences # <<>>

-----------------------------------------------------------------------------
(* Properties of runABTest.                                                *)

TestOver == test.pc \in {"refused", "failed", "shown"}

\* The live settings that hold a snapshot's arrays.
ConfigOf(state) == [prompts |-> state.prompts, prompt_order |-> state.promptOrder]

\* The configuration of slot B: the selected snapshot, or else the
\* configuration current when the test began.
ConfigOfB ==
    IF test.selectedSlotB # Null THEN ConfigOf(test.selectedSlotB)
    ELSE test.before.settings

\* The transcript both generations are to see: the one before the test and
\* the entry of the test input, if that holds more than whitespace.
TestTranscript ==
    IF test.input # Null /\ Inked(test.input.str) # {}
    THEN Append(test.before.chat,
                [name |-> "name1", is_user |-> TRUE, mes |-> Core(test.input.str)])
    ELSE test.before.chat

\* The two invocations never overlap, and the one for slot B starts after
\* the one for slot A has returned, from the state before the test.
Serialized ==
    /\ ~(inv[1].pc = "awaiting" /\ inv[2].pc = "awaiting")
    /\ inv[2].pc # "idle" =>
           /\ inv[1].pc = "returned"
           /\ during[2] = {}
           /\ pre[2] = test.before

\* Both generations saw the same transcript, and when the test is over the
\* live configuration and transcript are those before it.
SameTranscriptAndRestored ==
    /\ inv[1].pc # "idle" => atCall[1].chat = TestTranscript
    /\ inv[2].pc # "idle" => atCall[2].chat = TestTranscript
    /\ TestOver => Live = test.before

\* C19 as claimed: the two invocations of one runABTest are serialized;
\* each generation runs with its own slot's configuration as the live
\* configuration and both with the same transcript; and when runABTest is
\* over, the live configuration and transcript are those before the test.
C19_Serialized ==
    /\ Serialized
    /\ SameTranscriptAndRestored
    /\ inv[1].pc # "idle" => atCall[1].settings = ConfigOf(test.selectedSlotA)
    /\ inv[2].pc # "idle" => atCall[2].settings = ConfigOfB

\* C19 amended: as claimed, but a generation runs with its slot's
\* configuration only if the configuration collaborator is available;
\* without it nothing is substituted and both generations run with no live
\* configuration.
C19_SerializedIfAvailable ==
    /\ Serialized
    /\ SameTranscriptAndRestored
    /\ inv[1].pc # "idle" =>
           atCall[1].settings = IF test.before.settings # Null
                                THEN ConfigOf(test.selectedSlotA) ELSE Null
    /\ inv[2].pc # "idle" =>
           atCall[2].settings = IF test.before.settings # Null
                                THEN ConfigOfB ELSE Null

\* A test with two different snapshots selected, both different from the
\* live configuration, and a test input: both generations have run, the
\* second after a failure of the first, and the results are shown.
C19_Witness ==
    /\ test.pc = "shown"
    /\ test.before.settings # Null
    /\ test.selectedSlotB # Null
    /\ ConfigOf(test.selectedSlotA) # ConfigOfB
    /\ atCall[1].settings # atCall[2].settings
    /\ atCall[2].settings = ConfigOfB
    /\ Len(atCall[2].chat) = Len(test.before.chat) + 1
    /\ inv[1].ret = Str("Error: boom")
    /\ inv[2].ret = Str("r1")
    /\ Live = test.before

====
